---- MODULE Spec2Model ----
(***************************************************************************)
(* Employee Management System front end: the Dashboard page, the           *)
(* EmployeeForm, EmployeeList and SearchBar components and the             *)
(* employeeService HTTP client, as a state machine.                        *)
(*                                                                         *)
(* Text values are sequences of one-character strings, so that trim() and  *)
(* the e-mail regular expression are computed and not assumed.  A JSON     *)
(* value that may be null is a sequence of length at most one: Null is     *)
(* <<>> and Some(x) is <<x>>.                                              *)
(***************************************************************************)
EXTENDS Integers, Sequences, FiniteSets, Bags, TLC

VARIABLES
    db,               \* backend: the set of persisted employee records
    nextId,           \* backend: the next surrogate key it assigns
    formCalls,        \* bag of awaited createEmployee/updateEmployee calls
    listCalls,        \* bag of awaited calls of EmployeeList
    searchCalls,      \* bag of awaited searchEmployees calls
    statsCalls,       \* bag of awaited calls of Dashboard.fetchStats
    showForm,         \* Dashboard state
    selectedEmployee, \* Dashboard state: Null or Some(record)
    refreshKey,       \* Dashboard state
    stats,            \* Dashboard state
    searchResults,    \* Dashboard state: Null or Some(set of records)
    formData,         \* EmployeeForm state: the draft
    formLoading,      \* EmployeeForm state: loading
    errors,           \* EmployeeForm state: field -> message
    listMounted,      \* whether Dashboard renders EmployeeList (searchResults falsy)
    employees,        \* EmployeeList state
    listLoading,      \* EmployeeList state: loading
    filters,          \* EmployeeList state
    searchTerm,       \* SearchBar state
    searchLoading,    \* SearchBar state: loading
    last              \* the handler or continuation that ran last, with the Gateway
                      \* calls it issued and the notifications it produced

vars == <<db, nextId, formCalls, listCalls, searchCalls, statsCalls, showForm, selectedEmployee, refreshKey, stats,
          searchResults, formData, formLoading, errors, listMounted, employees,
          listLoading, filters, searchTerm, searchLoading, last>>

dashVars == <<showForm, selectedEmployee, refreshKey, stats, searchResults>>
formVars == <<formData, formLoading, errors>>
listVars == <<listMounted, employees, listLoading, filters>>
searchVars == <<searchTerm, searchLoading>>
backVars == <<db, nextId>>
netVars == <<formCalls, listCalls, searchCalls, statsCalls>>

(***************************************************************************)
(* Bounds of the model.                                                    *)
(***************************************************************************)
MaxRefresh == 2     \* form successes followed (refreshKey is capped in the guards)
MaxInFlight == 2    \* a user starts no new call while this many are awaited
MaxEmp == 2         \* surrogate keys the backend hands out

(***************************************************************************)
(* Values.                                                                 *)
(***************************************************************************)
Null == <<>>
Some(x) == <<x>>

Str0 == <<>>
Spc == <<" ">>

\* String.prototype.trim: leading and trailing white space removed.
RECURSIVE TrimLeft(_)
TrimLeft(s) ==
    IF s # <<>> /\ Head(s) = " " THEN TrimLeft(Tail(s)) ELSE s

RECURSIVE TrimRight(_)
TrimRight(s) ==
    IF s # <<>> /\ s[Len(s)] = " " THEN TrimRight(SubSeq(s, 1, Len(s) - 1)) ELSE s

Trim(s) == TrimRight(TrimLeft(s))

\* JavaScript truthiness of a string: only '' is falsy.
Truthy(s) == s # <<>>

NonWs(c) == c # " "

\* /\S+@\S+\.\S+/.test(s): an unanchored search.  \S also matches @ and . so a
\* match exists iff some @ has a non-space before it and some later . is
\* separated from it by one or more non-spaces and followed by a non-space.
EmailRegexTest(s) ==
    \E a \in 1..Len(s), d \in 1..Len(s) :
        /\ s[a] = "@"
        /\ a > 1 /\ NonWs(s[a - 1])
        /\ d > a + 1
        /\ s[d] = "."
        /\ \A i \in (a + 1)..(d - 1) : NonWs(s[i])
        /\ d < Len(s) /\ NonWs(s[d + 1])

Digits == <<"0", "1", "2", "3", "4", "5", "6", "7", "8", "9">>
IsDigit(c) == \E i \in 1..10 : Digits[i] = c
DigitVal(c) == (CHOOSE i \in 1..10 : Digits[i] = c) - 1

\* The value of the longest prefix of digits, acc being the value so far.
RECURSIVE DigitsValue(_, _)
DigitsValue(s, acc) ==
    IF s # <<>> /\ IsDigit(Head(s))
    THEN DigitsValue(Tail(s), 10 * acc + DigitVal(Head(s)))
    ELSE acc

\* parseFloat on the integer literals the model enters: leading white space
\* skipped, an optional sign, then digits; Null stands for NaN.
ParseFloat(s) ==
    LET t == TrimLeft(s)
        neg == t # <<>> /\ Head(t) = "-"
        u == IF neg THEN Tail(t) ELSE t
    IN  IF u = <<>> \/ ~IsDigit(Head(u)) THEN Null
        ELSE Some(IF neg THEN 0 - DigitsValue(u, 0) ELSE DigitsValue(u, 0))

\* ToNumber of a string: white space is trimmed, the empty string is 0, and the
\* whole of the rest must be a numeric literal (here: sign and digits), else NaN.
ToNumber(s) ==
    LET t == Trim(s)
        u == IF t # <<>> /\ Head(t) = "-" THEN Tail(t) ELSE t
    IN  IF t = <<>> THEN Some(0)
        ELSE IF u # <<>> /\ \A i \in 1..Len(u) : IsDigit(u[i]) THEN ParseFloat(t)
        ELSE Null

\* The relational comparison  s < 0  of a string with a number: the string is
\* converted with ToNumber, and every comparison with NaN is false.
LessThanZero(s) ==
    LET n == ToNumber(s)
    IN  n # Null /\ n[1] < 0

\* Number -> string, as React renders a numeric value into the input.
RECURSIVE NatStr(_)
NatStr(n) ==
    IF n < 10 THEN <<Digits[n + 1]>> ELSE NatStr(n \div 10) \o <<Digits[(n % 10) + 1]>>

NumStr(n) == IF n < 0 THEN <<"-">> \o NatStr(0 - n) ELSE NatStr(n)

(***************************************************************************)
(* EmployeeForm: the draft.                                                *)
(***************************************************************************)
TextFields == {"employee_id", "first_name", "last_name", "email", "phone",
               "department", "position", "salary", "hire_date"}

\* useState initial value of formData.
DefaultFormData ==
    [employee_id |-> Str0, first_name |-> Str0, last_name |-> Str0,
     email |-> Str0, phone |-> Str0, department |-> Str0, position |-> Str0,
     salary |-> Str0, hire_date |-> Str0, is_active |-> TRUE]

\* x || ''  for a nullable string of the record.
OrEmpty(o) == IF o = Null THEN Str0 ELSE o[1]

\* employee.salary || ''  : null and 0 are falsy; any other number is kept, and
\* behaves in every later use ( truthiness, < 0, parseFloat ) as its decimal
\* string does, which is what the draft holds here.
SalaryOrEmpty(o) == IF o = Null \/ o[1] = 0 THEN Str0 ELSE NumStr(o[1])

\* The useEffect on [employee]: the draft seeded from the record being edited.
SeedFormData(e) ==
    [employee_id |-> e.employee_id, first_name |-> e.first_name,
     last_name |-> e.last_name, email |-> e.email,
     phone |-> OrEmpty(e.phone), department |-> OrEmpty(e.department),
     position |-> OrEmpty(e.position), salary |-> SalaryOrEmpty(e.salary),
     hire_date |-> OrEmpty(e.hire_date), is_active |-> e.is_active]

NoErrors == [k \in {} |-> ""]

(***************************************************************************)
(* EmployeeForm.validateForm: the mapping newErrors.                       *)
(***************************************************************************)
RequiredMessage ==
    [employee_id |-> "Employee ID is required",
     first_name |-> "First name is required",
     last_name |-> "Last name is required",
     email |-> "Email is required"]

EmailError(email) ==
    IF ~Truthy(Trim(email)) THEN Some("Email is required")
    ELSE IF ~EmailRegexTest(email) THEN Some("Email is invalid")
    ELSE Null

SalaryError(salary) ==
    IF Truthy(salary) /\ LessThanZero(salary)
    THEN Some("Salary must be positive") ELSE Null

\* validateForm with the rules chained by else: only the first violation is kept.
validateFormShortCircuit(fd) ==
    LET bad == {f \in {"employee_id", "first_name", "last_name"} : ~Truthy(Trim(fd[f]))}
        first == IF "employee_id" \in bad THEN {"employee_id"}
                 ELSE IF "first_name" \in bad THEN {"first_name"}
                 ELSE IF "last_name" \in bad THEN {"last_name"}
                 ELSE IF EmailError(fd.email) # Null THEN {"email"}
                 ELSE IF SalaryError(fd.salary) # Null THEN {"salary"}
                 ELSE {}
    IN  [k \in first |->
            IF k = "email" THEN EmailError(fd.email)[1]
            ELSE IF k = "salary" THEN SalaryError(fd.salary)[1]
            ELSE RequiredMessage[k]]

validateForm(fd) ==
    LET req == {f \in {"employee_id", "first_name", "last_name"} :
                    ~Truthy(Trim(fd[f]))}
        em == IF EmailError(fd.email) # Null THEN {"email"} ELSE {}
        sa == IF SalaryError(fd.salary) # Null THEN {"salary"} ELSE {}
    IN  [k \in req \cup em \cup sa |->
            IF k = "email" THEN EmailError(fd.email)[1]
            ELSE IF k = "salary" THEN SalaryError(fd.salary)[1]
            ELSE RequiredMessage[k]]

\* handleSubmit without its early return.
FormValidIgnoresErrors(fd) == TRUE

\* Object.keys(newErrors).length === 0
FormValid(fd) == DOMAIN validateForm(fd) = {}

\* The optional field sent as typed, the empty string included.
OrNullKeepsEmpty(s) == Some(s)

\* x || null  for an optional text field of the draft.
OrNull(s) == IF Truthy(s) THEN Some(s) ELSE Null

\* formData.salary ? parseFloat(formData.salary) : null
SalaryToSubmit(s) == IF Truthy(s) THEN ParseFloat(s) ELSE Null

\* handleSubmit: dataToSubmit.
dataToSubmit(fd) ==
    [employee_id |-> fd.employee_id, first_name |-> fd.first_name,
     last_name |-> fd.last_name, email |-> fd.email,
     phone |-> OrNull(fd.phone), department |-> OrNull(fd.department),
     position |-> OrNull(fd.position), salary |-> SalaryToSubmit(fd.salary),
     hire_date |-> OrNull(fd.hire_date), is_active |-> fd.is_active]

(***************************************************************************)
(* The backend behind employeeService, from its REST contract.             *)
(***************************************************************************)
\* The record the backend stores for a payload under surrogate key id.
Stored(id, data) ==
    [id |-> id, employee_id |-> data.employee_id, first_name |-> data.first_name,
     last_name |-> data.last_name, email |-> data.email, phone |-> data.phone,
     department |-> data.department, position |-> data.position,
     salary |-> data.salary, hire_date |-> data.hire_date,
     is_active |-> data.is_active]

Exists(id) == \E r \in db : r.id = id

\* GET /api/employees/ : the records matching the parameters that are present.
Matching(params) ==
    {r \in db :
        /\ params.department # Null => r.department = params.department
        /\ params.is_active # Null => r.is_active = params.is_active[1]}

ListResponse(params) ==
    [employees |-> Matching(params), total |-> Cardinality(Matching(params))]

WithActive(id, b) ==
    {IF r.id = id THEN [r EXCEPT !.is_active = b] ELSE r : r \in db}

(***************************************************************************)
(* Bags of awaited calls.                                                  *)
(***************************************************************************)
One(t) == SetToBag({t})

Count(B, t) == IF t \in DOMAIN B THEN B[t] ELSE 0

\* The component that awaits these calls is unmounted: its state setters do
\* nothing from now on, the rest of each continuation still runs.
Orphaned(B) ==
    LET dead(t) == [t EXCEPT !.live = FALSE]
        D == {dead(t) : t \in DOMAIN B}
    IN  [t \in D |-> Count(B, t) + Count(B, [t EXCEPT !.live = TRUE])]

NoParams == [department |-> Null, is_active |-> Null]

\* args are the inputs of the handler, or what the awaited call returned.
Step(op, args, calls, toasts) ==
    [op |-> op, args |-> args, calls |-> calls, toasts |-> toasts]

(***************************************************************************)
(* employeeService: the request each method sends.                         *)
(***************************************************************************)
getAllEmployees(params) == <<"getAllEmployees", params>>
createEmployee(data) == <<"createEmployee", data>>
updateEmployee(id, data) == <<"updateEmployee", id, data>>
deleteEmployee(id) == <<"deleteEmployee", id>>
deactivateEmployee(id) == <<"deactivateEmployee", id>>
activateEmployee(id) == <<"activateEmployee", id>>
searchEmployees(q) == <<"searchEmployees", q>>

(***************************************************************************)
(* EmployeeList.                                                           *)
(***************************************************************************)
DefaultFilters == [department |-> Str0, is_active |-> ""]

\* fetchEmployees without the test  filters.is_active !== ''  : an unset status
\* filter is sent as false.
FetchParamsAlwaysStatus(f) ==
    [department |-> IF Truthy(f.department) THEN Some(f.department) ELSE Null,
     is_active |-> Some(f.is_active = "true")]

\* fetchEmployees: the params object; a key that is not assigned is Null here.
FetchParams(f) ==
    [department |-> IF Truthy(f.department) THEN Some(f.department) ELSE Null,
     is_active |-> IF f.is_active # "" THEN Some(f.is_active = "true") ELSE Null]

\* An awaited call of EmployeeList.  params are the parameters fetchEmployees
\* builds from the filters of the render whose closure runs it.
\* name is the employeeName argument of the handler.
ListTask(kind, id, name, params, live) ==
    [kind |-> kind, id |-> id, name |-> name, params |-> params, live |-> live]

\* getDepartments: the distinct truthy departments of the loaded records.
getDepartments ==
    {r.department[1] : r \in {x \in employees : x.department # Null /\ Truthy(x.department[1])}}

\* The modal overlay of an open form covers the page.
PageReachable == ~showForm

\* The table and the filters are rendered: not loading, and records loaded.
ListRendered == listMounted /\ ~listLoading /\ employees # {}

ListRoom == BagCardinality(listCalls) < MaxInFlight

employeeName(e) == e.first_name \o <<" ">> \o e.last_name

\* setFilters from filter selects that the loading and the empty-state renders
\* would show as well.
setFiltersAlwaysShown(name, value) ==
    /\ PageReachable /\ listMounted /\ ListRoom
    /\ value # filters[name]
    /\ name = "department" => value \in getDepartments \cup {Str0}
    /\ name = "is_active" => value \in {"", "true", "false"}
    /\ filters' = [filters EXCEPT ![name] = value]
    /\ listLoading' = TRUE
    /\ listCalls' = listCalls (+) One(ListTask("fetch", 0, Str0, FetchParams(filters'), TRUE))
    /\ last' = Step("setFilters", <<name>>, <<getAllEmployees(FetchParams(filters'))>>, <<>>)
    /\ UNCHANGED <<listMounted, employees, dashVars, formVars, searchVars, backVars,
                   formCalls, searchCalls, statsCalls>>

\* onChange of a filter select, and the useEffect on [refresh, filters] that
\* follows the new render: fetchEmployees.
setFilters(name, value) ==
    /\ PageReachable /\ ListRendered /\ ListRoom
    /\ value # filters[name]
    /\ name = "department" => value \in getDepartments \cup {Str0}
    /\ name = "is_active" => value \in {"", "true", "false"}
    /\ filters' = [filters EXCEPT ![name] = value]
    /\ listLoading' = TRUE
    /\ listCalls' = listCalls (+) One(ListTask("fetch", 0, Str0, FetchParams(filters'), TRUE))
    /\ last' = Step("setFilters", <<name>>, <<getAllEmployees(FetchParams(filters'))>>, <<>>)
    /\ UNCHANGED <<listMounted, employees, dashVars, formVars, searchVars, backVars,
                   formCalls, searchCalls, statsCalls>>

\* handleDelete that does not look at the answer of window.confirm.
handleDeleteNoConfirm(e, confirmed) ==
    /\ PageReachable /\ ListRendered /\ ListRoom
    /\ e \in employees
    /\ listCalls' = listCalls (+) One(ListTask("delete", e.id, employeeName(e),
                                               FetchParams(filters), TRUE))
    /\ last' = Step("handleDelete", <<e.id, confirmed>>, <<deleteEmployee(e.id)>>, <<>>)
    /\ UNCHANGED <<listVars, dashVars, formVars, searchVars, backVars,
                   formCalls, searchCalls, statsCalls>>

\* handleDelete up to its await.
handleDelete(e, confirmed) ==
    /\ PageReachable /\ ListRendered /\ ListRoom
    /\ e \in employees
    /\ IF confirmed
       THEN /\ listCalls' = listCalls (+) One(ListTask("delete", e.id, employeeName(e),
                                                     FetchParams(filters), TRUE))
            /\ last' = Step("handleDelete", <<e.id, TRUE>>, <<deleteEmployee(e.id)>>, <<>>)
       ELSE /\ listCalls' = listCalls
            /\ last' = Step("handleDelete", <<e.id, FALSE>>, <<>>, <<>>)
    /\ UNCHANGED <<listVars, dashVars, formVars, searchVars, backVars,
                   formCalls, searchCalls, statsCalls>>

\* handleToggleStatus with the two branches swapped.
handleToggleStatusInverted(e) ==
    /\ PageReachable /\ ListRendered /\ ListRoom
    /\ e \in employees
    /\ IF ~e.is_active
       THEN /\ listCalls' = listCalls (+) One(ListTask("deactivate", e.id, employeeName(e),
                                                     FetchParams(filters), TRUE))
            /\ last' = Step("handleToggleStatus", <<e.id, e.is_active>>,
                            <<deactivateEmployee(e.id)>>, <<>>)
       ELSE /\ listCalls' = listCalls (+) One(ListTask("activate", e.id, employeeName(e),
                                                     FetchParams(filters), TRUE))
            /\ last' = Step("handleToggleStatus", <<e.id, e.is_active>>,
                            <<activateEmployee(e.id)>>, <<>>)
    /\ UNCHANGED <<listVars, dashVars, formVars, searchVars, backVars,
                   formCalls, searchCalls, statsCalls>>

\* handleToggleStatus up to its await.
handleToggleStatus(e) ==
    /\ PageReachable /\ ListRendered /\ ListRoom
    /\ e \in employees
    /\ IF e.is_active
       THEN /\ listCalls' = listCalls (+) One(ListTask("deactivate", e.id, employeeName(e),
                                                     FetchParams(filters), TRUE))
            /\ last' = Step("handleToggleStatus", <<e.id, TRUE>>, <<deactivateEmployee(e.id)>>, <<>>)
       ELSE /\ listCalls' = listCalls (+) One(ListTask("activate", e.id, employeeName(e),
                                                     FetchParams(filters), TRUE))
            /\ last' = Step("handleToggleStatus", <<e.id, FALSE>>, <<activateEmployee(e.id)>>, <<>>)
    /\ UNCHANGED <<listVars, dashVars, formVars, searchVars, backVars,
                   formCalls, searchCalls, statsCalls>>

\* fetchEmployees that sets the records only when the response answers the
\* filters selected now, and drops a response to an older request.
FetchResolvedDropsStale(t) ==
    /\ BagIn(t, listCalls) /\ t.kind = "fetch"
    /\ listCalls' = listCalls (-) One(t)
    /\ IF t.live
       THEN /\ employees' = IF t.params = FetchParams(filters)
                            THEN ListResponse(t.params).employees ELSE employees
            /\ listLoading' = FALSE
       ELSE UNCHANGED <<employees, listLoading>>
    /\ last' = Step("FetchResolved", <<t.params, t.live, listLoading>>, <<>>, <<>>)
    /\ UNCHANGED <<listMounted, filters, dashVars, formVars, searchVars, backVars,
                   formCalls, searchCalls, statsCalls>>

\* fetchEmployees after its await, the call having succeeded.
FetchResolved(t) ==
    /\ BagIn(t, listCalls) /\ t.kind = "fetch"
    /\ listCalls' = listCalls (-) One(t)
    /\ IF t.live
       THEN /\ employees' = ListResponse(t.params).employees
            /\ listLoading' = FALSE
       ELSE UNCHANGED <<employees, listLoading>>
    /\ last' = Step("FetchResolved", <<t.params, t.live, listLoading>>, <<>>, <<>>)
    /\ UNCHANGED <<listMounted, filters, dashVars, formVars, searchVars, backVars,
                   formCalls, searchCalls, statsCalls>>

\* fetchEmployees after its await, the call having failed.
FetchRejected(t) ==
    /\ BagIn(t, listCalls) /\ t.kind = "fetch"
    /\ listCalls' = listCalls (-) One(t)
    /\ listLoading' = IF t.live THEN FALSE ELSE listLoading
    /\ last' = Step("FetchRejected", <<>>, <<>>, <<<<"error", "Failed to fetch employees">>>>)
    /\ UNCHANGED <<listMounted, employees, filters, dashVars, formVars, searchVars,
                   backVars, formCalls, searchCalls, statsCalls>>

\* The fetchEmployees() call that ends the try block of handleDelete and of
\* handleToggleStatus, run from the closure of the render that started t.
Refetch(t) ==
    /\ listCalls' = (listCalls (-) One(t)) (+) One(ListTask("fetch", 0, Str0, t.params, t.live))
    /\ listLoading' = IF t.live THEN TRUE ELSE listLoading

\* handleDelete that also drops the row locally, ahead of the re-fetch.
DeleteResolvedOptimistic(t) ==
    /\ BagIn(t, listCalls) /\ t.kind = "delete"
    /\ Exists(t.id)
    /\ db' = {r \in db : r.id # t.id}
    /\ Refetch(t)
    /\ employees' = IF t.live THEN {r \in employees : r.id # t.id} ELSE employees
    /\ last' = Step("DeleteResolved", <<t.id>>, <<getAllEmployees(t.params)>>,
                    <<<<"success", "Employee deleted successfully">>>>)
    /\ UNCHANGED <<nextId, listMounted, filters, dashVars, formVars,
                   searchVars, formCalls, searchCalls, statsCalls>>

\* handleDelete that also tells the Dashboard, which then counts again.
DeleteResolvedRefreshesStats(t) ==
    /\ BagIn(t, listCalls) /\ t.kind = "delete"
    /\ Exists(t.id)
    /\ db' = {r \in db : r.id # t.id}
    /\ Refetch(t)
    /\ refreshKey' = refreshKey + 1
    /\ statsCalls' = statsCalls (+) One([stage |-> 1, total |-> 0, active |-> 0])
    /\ last' = Step("DeleteResolved", <<t.id>>, <<getAllEmployees(t.params)>>,
                    <<<<"success", "Employee deleted successfully">>>>)
    /\ UNCHANGED <<nextId, listMounted, employees, filters, showForm, selectedEmployee,
                   stats, searchResults, formVars, searchVars, formCalls, searchCalls>>

\* handleDelete after its await, the call having succeeded.
DeleteResolved(t) ==
    /\ BagIn(t, listCalls) /\ t.kind = "delete"
    /\ Exists(t.id)
    /\ db' = {r \in db : r.id # t.id}
    /\ Refetch(t)
    /\ last' = Step("DeleteResolved", <<t.id>>, <<getAllEmployees(t.params)>>,
                    <<<<"success", "Employee deleted successfully">>>>)
    /\ UNCHANGED <<nextId, listMounted, employees, filters, dashVars, formVars,
                   searchVars, formCalls, searchCalls, statsCalls>>

\* handleDelete after its await, the call having failed.
DeleteRejected(t) ==
    /\ BagIn(t, listCalls) /\ t.kind = "delete"
    /\ listCalls' = listCalls (-) One(t)
    /\ last' = Step("DeleteRejected", <<t.id>>, <<>>, <<<<"error", "Failed to delete employee">>>>)
    /\ UNCHANGED <<listVars, dashVars, formVars, searchVars, backVars,
                   formCalls, searchCalls, statsCalls>>

\* handleToggleStatus after its await, the call having succeeded.
ToggleResolved(t) ==
    /\ BagIn(t, listCalls) /\ t.kind \in {"deactivate", "activate"}
    /\ Exists(t.id)
    /\ db' = WithActive(t.id, t.kind = "activate")
    /\ last' = Step("ToggleResolved", <<t.id, t.kind>>, <<getAllEmployees(t.params)>>,
                    <<<<"success", t.name, IF t.kind = "activate" THEN "activated"
                                                                 ELSE "deactivated">>>>)
    /\ Refetch(t)
    /\ UNCHANGED <<nextId, listMounted, employees, filters, dashVars, formVars,
                   searchVars, formCalls, searchCalls, statsCalls>>

\* handleToggleStatus after its await, the call having failed.
ToggleRejected(t) ==
    /\ BagIn(t, listCalls) /\ t.kind \in {"deactivate", "activate"}
    /\ listCalls' = listCalls (-) One(t)
    /\ last' = Step("ToggleRejected", <<t.id, t.kind>>, <<>>, <<<<"error", "Failed to update status">>>>)
    /\ UNCHANGED <<listVars, dashVars, formVars, searchVars, backVars,
                   formCalls, searchCalls, statsCalls>>

(***************************************************************************)
(* Dashboard.                                                              *)
(***************************************************************************)
NoStats == [total |-> 0, active |-> 0, inactive |-> 0]

\* An awaited call of fetchStats: stage 1, 2, 3 is the await of allData,
\* activeData, inactiveData; total and active are the totals already received.
StatsTask(stage, total, active) == [stage |-> stage, total |-> total, active |-> active]

StatsParams(stage) ==
    IF stage = 1 THEN NoParams
    ELSE [department |-> Null, is_active |-> Some(stage = 2)]

\* What is awaited after the effects of a render with a new refreshKey have run:
\* Dashboard's effect calls fetchStats, and EmployeeList's effect, when the list
\* is mounted, calls fetchEmployees with the filters of that render.
RefreshEffects ==
    /\ statsCalls' = statsCalls (+) One(StatsTask(1, 0, 0))
    /\ IF listMounted
       THEN /\ listCalls' = listCalls (+) One(ListTask("fetch", 0, Str0, FetchParams(filters), TRUE))
            /\ listLoading' = TRUE
       ELSE UNCHANGED <<listCalls, listLoading>>

RefreshCalls ==
    <<getAllEmployees(NoParams)>> \o
    (IF listMounted THEN <<getAllEmployees(FetchParams(filters))>> ELSE <<>>)

\* handleAddEmployee, and the mount of EmployeeForm with employee = null.
handleAddEmployee ==
    /\ PageReachable
    /\ selectedEmployee' = Null
    /\ showForm' = TRUE
    /\ formData' = DefaultFormData
    /\ formLoading' = FALSE
    /\ errors' = NoErrors
    /\ last' = Step("handleAddEmployee", <<>>, <<>>, <<>>)
    /\ UNCHANGED <<refreshKey, stats, searchResults, listVars, searchVars, backVars, netVars>>

\* handleEditEmployee, and the mount of EmployeeForm with its useEffect on
\* [employee]; e is a row of the list or of the search results.
handleEditEmployee(e) ==
    /\ PageReachable
    /\ \/ ListRendered /\ e \in employees
       \/ searchResults # Null /\ e \in searchResults[1]
    /\ selectedEmployee' = Some(e)
    /\ showForm' = TRUE
    /\ formData' = SeedFormData(e)
    /\ formLoading' = FALSE
    /\ errors' = NoErrors
    /\ last' = Step("handleEditEmployee", <<>>, <<>>, <<>>)
    /\ UNCHANGED <<refreshKey, stats, searchResults, listVars, searchVars, backVars, netVars>>

\* handleCloseForm as the parent runs it, with the unmount of EmployeeForm: the
\* component state is gone and the calls it awaits are orphaned.
CloseForm ==
    /\ showForm' = FALSE
    /\ selectedEmployee' = Null
    /\ formData' = DefaultFormData
    /\ formLoading' = FALSE
    /\ errors' = NoErrors

\* onClose from the close button, the Cancel button or the overlay.
handleCloseForm ==
    /\ showForm
    /\ CloseForm
    /\ formCalls' = Orphaned(formCalls)
    /\ last' = Step("handleCloseForm", <<>>, <<>>, <<>>)
    /\ UNCHANGED <<refreshKey, stats, searchResults, listVars, searchVars, backVars,
                   listCalls, searchCalls, statsCalls>>

\* fetchStats after one of its awaits, the call having succeeded.
StatsResolved(t) ==
    /\ BagIn(t, statsCalls)
    /\ LET total == ListResponse(StatsParams(t.stage)).total
       IN  IF t.stage = 1
           THEN /\ statsCalls' = (statsCalls (-) One(t)) (+) One(StatsTask(2, total, 0))
                /\ stats' = stats
                /\ last' = Step("StatsResolved", <<>>, <<getAllEmployees(StatsParams(2))>>, <<>>)
           ELSE IF t.stage = 2
           THEN /\ statsCalls' = (statsCalls (-) One(t)) (+) One(StatsTask(3, t.total, total))
                /\ stats' = stats
                /\ last' = Step("StatsResolved", <<>>, <<getAllEmployees(StatsParams(3))>>, <<>>)
           ELSE /\ statsCalls' = statsCalls (-) One(t)
                /\ stats' = [total |-> t.total, active |-> t.active, inactive |-> total]
                /\ last' = Step("StatsResolved", <<>>, <<>>, <<>>)
    /\ UNCHANGED <<showForm, selectedEmployee, refreshKey, searchResults, formVars,
                   listVars, searchVars, backVars, formCalls, listCalls, searchCalls>>

\* fetchStats after one of its awaits, the call having failed: the catch only logs.
StatsRejected(t) ==
    /\ BagIn(t, statsCalls)
    /\ statsCalls' = statsCalls (-) One(t)
    /\ last' = Step("StatsRejected", <<>>, <<>>, <<>>)
    /\ UNCHANGED <<dashVars, formVars, listVars, searchVars, backVars,
                   formCalls, listCalls, searchCalls>>

(***************************************************************************)
(* EmployeeForm.                                                           *)
(***************************************************************************)
\* An awaited createEmployee (id 0) or updateEmployee call of handleSubmit.
FormTask(op, id, data, live) == [op |-> op, id |-> id, data |-> data, live |-> live]

FormRoom == refreshKey + BagCardinality(formCalls) < MaxRefresh

\* handleChange: the draft gets the value, and a truthy error of the field is
\* replaced by ''.
handleChange(name, value) ==
    /\ showForm
    /\ name = "employee_id" => selectedEmployee = Null
    /\ value # formData[name]
    /\ formData' = [formData EXCEPT ![name] = value]
    /\ errors' = IF name \in DOMAIN errors /\ errors[name] # ""
                 THEN [errors EXCEPT ![name] = ""] ELSE errors
    /\ last' = Step("handleChange", <<>>, <<>>, <<>>)
    /\ UNCHANGED <<formLoading, dashVars, listVars, searchVars, backVars, netVars>>

\* handleSubmit behind a submit button that stays enabled while loading.
handleSubmitWhileBusy ==
    /\ showForm /\ FormRoom
    /\ errors' = validateForm(formData)
    /\ IF ~FormValid(formData)
       THEN /\ UNCHANGED <<formLoading, formCalls>>
            /\ last' = Step("handleSubmit", <<>>, <<>>, <<>>)
       ELSE /\ formLoading' = TRUE
            /\ IF selectedEmployee # Null
               THEN /\ formCalls' = formCalls (+) One(FormTask("update", selectedEmployee[1].id,
                                                               dataToSubmit(formData), TRUE))
                    /\ last' = Step("handleSubmit", <<>>,
                                    <<updateEmployee(selectedEmployee[1].id,
                                                     dataToSubmit(formData))>>, <<>>)
               ELSE /\ formCalls' = formCalls (+) One(FormTask("create", 0,
                                                               dataToSubmit(formData), TRUE))
                    /\ last' = Step("handleSubmit", <<>>,
                                    <<createEmployee(dataToSubmit(formData))>>, <<>>)
    /\ UNCHANGED <<formData, dashVars, listVars, searchVars, backVars,
                   listCalls, searchCalls, statsCalls>>

\* handleSubmit up to its await (or to its early return).
handleSubmit ==
    /\ showForm /\ ~formLoading /\ FormRoom
    /\ errors' = validateForm(formData)
    /\ IF ~FormValid(formData)
       THEN /\ UNCHANGED <<formLoading, formCalls>>
            /\ last' = Step("handleSubmit", <<>>, <<>>, <<>>)
       ELSE /\ formLoading' = TRUE
            /\ IF selectedEmployee # Null
               THEN /\ formCalls' = formCalls (+) One(FormTask("update", selectedEmployee[1].id,
                                                               dataToSubmit(formData), TRUE))
                    /\ last' = Step("handleSubmit", <<>>,
                                    <<updateEmployee(selectedEmployee[1].id,
                                                     dataToSubmit(formData))>>, <<>>)
               ELSE /\ formCalls' = formCalls (+) One(FormTask("create", 0,
                                                               dataToSubmit(formData), TRUE))
                    /\ last' = Step("handleSubmit", <<>>,
                                    <<createEmployee(dataToSubmit(formData))>>, <<>>)
    /\ UNCHANGED <<formData, dashVars, listVars, searchVars, backVars,
                   listCalls, searchCalls, statsCalls>>

\* handleFormSuccess, the parent's onSuccess.
handleFormSuccess == refreshKey' = refreshKey + 1

\* handleSubmit after its await, the call having succeeded: the toast,
\* onSuccess(), onClose(), and setLoading(false) on the form just unmounted.
SubmitResolved(t) ==
    /\ BagIn(t, formCalls)
    /\ IF t.op = "create"
       THEN /\ nextId <= MaxEmp
            /\ db' = db \cup {Stored(nextId, t.data)}
            /\ nextId' = nextId + 1
       ELSE /\ Exists(t.id)
            /\ db' = {IF r.id = t.id THEN Stored(t.id, t.data) ELSE r : r \in db}
            /\ nextId' = nextId
    /\ handleFormSuccess
    /\ RefreshEffects
    /\ CloseForm
    /\ formCalls' = Orphaned(formCalls (-) One(t))
    /\ last' = Step("SubmitResolved", <<t.live, t.op>>, RefreshCalls,
                    <<<<"success", IF t.op = "create"
                                   THEN "Employee created successfully"
                                   ELSE "Employee updated successfully">>>>)
    /\ UNCHANGED <<stats, searchResults, listMounted, employees, filters, searchVars,
                   searchCalls>>

\* error.response?.data?.detail || 'Failed to save employee'
errorMessage(detail) ==
    IF detail # Null /\ detail[1] # "" THEN detail[1] ELSE "Failed to save employee"

\* handleSubmit without the finally block: loading stays set after a failure.
SubmitRejectedKeepsBusy(t, detail) ==
    /\ BagIn(t, formCalls)
    /\ formCalls' = formCalls (-) One(t)
    /\ last' = Step("SubmitRejected", <<t.live, detail>>, <<>>, <<<<"error", errorMessage(detail)>>>>)
    /\ UNCHANGED <<formData, formLoading, errors, dashVars, listVars, searchVars, backVars,
                   listCalls, searchCalls, statsCalls>>

\* handleSubmit after its await, the call having failed with this detail.
SubmitRejected(t, detail) ==
    /\ BagIn(t, formCalls)
    /\ formCalls' = formCalls (-) One(t)
    /\ formLoading' = IF t.live THEN FALSE ELSE formLoading
    /\ last' = Step("SubmitRejected", <<t.live, detail>>, <<>>, <<<<"error", errorMessage(detail)>>>>)
    /\ UNCHANGED <<formData, errors, dashVars, listVars, searchVars, backVars,
                   listCalls, searchCalls, statsCalls>>

(***************************************************************************)
(* SearchBar.                                                              *)
(***************************************************************************)
SearchTask(q) == [q |-> q]

\* onChange of the search input.
setSearchTerm(value) ==
    /\ PageReachable
    /\ value # searchTerm
    /\ searchTerm' = value
    /\ last' = Step("setSearchTerm", <<>>, <<>>, <<>>)
    /\ UNCHANGED <<searchLoading, dashVars, formVars, listVars, backVars, netVars>>

\* handleSearch that tests searchTerm without trimming it.
handleSearchNoTrim ==
    /\ PageReachable /\ ~searchLoading
    /\ IF ~Truthy(searchTerm)
       THEN /\ UNCHANGED <<searchLoading, searchCalls>>
            /\ last' = Step("handleSearch", <<>>, <<>>,
                            <<<<"info", "Please enter a search term">>>>)
       ELSE /\ searchLoading' = TRUE
            /\ searchCalls' = searchCalls (+) One(SearchTask(searchTerm))
            /\ last' = Step("handleSearch", <<>>, <<searchEmployees(searchTerm)>>, <<>>)
    /\ UNCHANGED <<searchTerm, dashVars, formVars, listVars, backVars,
                   formCalls, listCalls, statsCalls>>

\* handleSearch up to its await (or to its early return).
handleSearch ==
    /\ PageReachable /\ ~searchLoading
    /\ IF ~Truthy(Trim(searchTerm))
       THEN /\ UNCHANGED <<searchLoading, searchCalls>>
            /\ last' = Step("handleSearch", <<>>, <<>>, <<<<"info", "Please enter a search term">>>>)
       ELSE /\ searchLoading' = TRUE
            /\ searchCalls' = searchCalls (+) One(SearchTask(searchTerm))
            /\ last' = Step("handleSearch", <<>>, <<searchEmployees(searchTerm)>>, <<>>)
    /\ UNCHANGED <<searchTerm, dashVars, formVars, listVars, backVars,
                   formCalls, listCalls, statsCalls>>

\* The unmount of EmployeeList: its state is gone (the variables hold the
\* useState initial values of the next mount), its awaited calls are orphaned.
UnmountList ==
    /\ listMounted' = FALSE
    /\ employees' = {}
    /\ listLoading' = TRUE
    /\ filters' = DefaultFilters
    /\ listCalls' = Orphaned(listCalls)

\* The mount of EmployeeList: initial state, and its effect calls fetchEmployees.
MountList ==
    /\ listMounted' = TRUE
    /\ employees' = {}
    /\ listLoading' = TRUE
    /\ filters' = DefaultFilters
    /\ listCalls' = listCalls (+) One(ListTask("fetch", 0, Str0, FetchParams(DefaultFilters), TRUE))

\* handleSearchResults, the parent's onSearchResults, and the render after it:
\* a truthy value (any array) shows the results in place of EmployeeList.
handleSearchResults(results) ==
    /\ searchResults' = results
    /\ IF results # Null /\ listMounted THEN UnmountList
       ELSE IF results = Null /\ ~listMounted THEN MountList
       ELSE UNCHANGED listVars /\ UNCHANGED listCalls

\* handleSearch after its await, the call having returned these results.
SearchResolved(t, results) ==
    /\ BagIn(t, searchCalls)
    /\ searchCalls' = searchCalls (-) One(t)
    /\ handleSearchResults(Some(results))
    /\ searchLoading' = FALSE
    /\ last' = Step("SearchResolved", <<results>>, <<>>,
                    IF Cardinality(results) = 0
                    THEN <<<<"info", "No employees found matching your search">>>>
                    ELSE <<<<"success", "Found", Cardinality(results)>>>>)
    /\ UNCHANGED <<searchTerm, showForm, selectedEmployee, refreshKey, stats, formVars,
                   backVars, formCalls, statsCalls>>

\* handleSearch after its await, the call having failed.
SearchRejected(t) ==
    /\ BagIn(t, searchCalls)
    /\ searchCalls' = searchCalls (-) One(t)
    /\ searchLoading' = FALSE
    /\ last' = Step("SearchRejected", <<>>, <<>>, <<<<"error", "Failed to search employees">>>>)
    /\ UNCHANGED <<searchTerm, dashVars, formVars, listVars, backVars,
                   formCalls, listCalls, statsCalls>>

\* handleClear; the Clear button is rendered while searchTerm is truthy.
handleClear ==
    /\ PageReachable
    /\ Truthy(searchTerm)
    /\ ~listMounted => ListRoom
    /\ searchTerm' = Str0
    /\ handleSearchResults(Null)
    /\ last' = Step("handleClear", <<>>,
                    IF ~listMounted THEN <<getAllEmployees(FetchParams(DefaultFilters))>>
                    ELSE <<>>, <<>>)
    /\ UNCHANGED <<searchLoading, showForm, selectedEmployee, refreshKey, stats, formVars,
                   backVars, formCalls, searchCalls, statsCalls>>

(***************************************************************************)
(* Inputs.                                                                 *)
(***************************************************************************)
HR == <<"H", "R">>

\* The record the backend holds when the page is opened.
Emp1 ==
    [id |-> 1, employee_id |-> <<"E", "1">>, first_name |-> <<"A">>,
     last_name |-> <<"B">>, email |-> <<"a", "@", "b", ".", "c">>, phone |-> Null,
     department |-> Some(HR), position |-> Null, salary |-> Some(50),
     hire_date |-> Null, is_active |-> TRUE]

\* What the user may type or pick in each field of the form.
FormInputs(name) ==
    CASE name = "employee_id" -> {Str0, Spc, <<"E", "2">>}
      [] name = "first_name" -> {Str0, Spc, <<"C">>}
      [] name = "last_name" -> {Str0, Spc, <<"D">>}
      [] name = "email" -> {Str0, Spc, <<"c", "@", "d", ".", "e">>, <<"c", "@", "d">>,
                            <<"c", " ", "@", "d", ".", "e">>}
      [] name = "phone" -> {Str0, <<"5">>}
      [] name = "department" -> {Str0, HR}
      [] name = "position" -> {Str0, <<"Q">>}
      [] name = "salary" -> {Str0, <<"0">>, <<"-", "5">>, <<"5", "0">>}
      [] name = "hire_date" -> {Str0, <<"2", "0", "2", "6">>}
      [] name = "is_active" -> BOOLEAN

DraftSpace ==
    [employee_id : FormInputs("employee_id") \cup {Emp1.employee_id},
     first_name : FormInputs("first_name"), last_name : FormInputs("last_name"),
     email : FormInputs("email"), phone : FormInputs("phone"),
     department : FormInputs("department"), position : FormInputs("position"),
     salary : FormInputs("salary"), hire_date : FormInputs("hire_date"),
     is_active : BOOLEAN]

\* What the user retypes in a form that is open: the required fields filled in
\* or emptied, and the Active checkbox.
PageInputs(name) ==
    CASE name = "employee_id" -> {<<"E", "2">>}
      [] name = "first_name" -> {<<"C">>}
      [] name = "last_name" -> {<<"D">>}
      [] name = "email" -> {<<"c", "@", "d", ".", "e">>}
      [] name = "is_active" -> BOOLEAN
      [] OTHER -> {}

SearchInputs == {Spc, <<"d", "o", "e">>}

Details == {Null, Some(""), Some("Employee ID already exists")}

(***************************************************************************)
(* The page after its first render and the effects of that render.         *)
(***************************************************************************)
Init ==
    /\ db = {Emp1}
    /\ nextId = 2
    /\ formCalls = EmptyBag
    /\ listCalls = One(ListTask("fetch", 0, Str0, FetchParams(DefaultFilters), TRUE))
    /\ searchCalls = EmptyBag
    /\ statsCalls = One(StatsTask(1, 0, 0))
    /\ showForm = FALSE
    /\ selectedEmployee = Null
    /\ refreshKey = 0
    /\ stats = NoStats
    /\ searchResults = Null
    /\ formData = DefaultFormData
    /\ formLoading = FALSE
    /\ errors = NoErrors
    /\ listMounted = TRUE
    /\ employees = {}
    /\ listLoading = TRUE
    /\ filters = DefaultFilters
    /\ searchTerm = Str0
    /\ searchLoading = FALSE
    /\ last = Step("mount", <<>>, <<getAllEmployees(FetchParams(DefaultFilters)),
                              getAllEmployees(NoParams)>>, <<>>)

ListTasks == DOMAIN listCalls
FormTasks == DOMAIN formCalls

UserChangesField ==
    \E name \in TextFields \cup {"is_active"} :
        \E value \in PageInputs(name) \cup (IF name = "is_active" THEN {} ELSE {Str0}) :
            handleChange(name, value)
UserSetsFilter ==
    \E name \in {"department", "is_active"} :
        \E value \in (IF name = "department" THEN getDepartments \cup {Str0}
                      ELSE {"", "true", "false"}) : setFilters(name, value)
UserDeletes == \E e \in employees, confirmed \in BOOLEAN : handleDelete(e, confirmed)
UserToggles == \E e \in employees : handleToggleStatus(e)
UserEdits ==
    \E e \in employees \cup (IF searchResults = Null THEN {} ELSE searchResults[1]) :
        handleEditEmployee(e)
UserTypesSearch == \E value \in SearchInputs : setSearchTerm(value)
FetchReturns == \E t \in ListTasks : FetchResolved(t)
FetchFails == \E t \in ListTasks : FetchRejected(t)
DeleteReturns == \E t \in ListTasks : DeleteResolved(t)
DeleteFails == \E t \in ListTasks : DeleteRejected(t)
ToggleReturns == \E t \in ListTasks : ToggleResolved(t)
ToggleFails == \E t \in ListTasks : ToggleRejected(t)
SubmitReturns == \E t \in FormTasks : SubmitResolved(t)
SubmitFails == \E t \in FormTasks, detail \in Details : SubmitRejected(t, detail)
SearchReturns == \E t \in DOMAIN searchCalls, results \in SUBSET db : SearchResolved(t, results)
SearchFails == \E t \in DOMAIN searchCalls : SearchRejected(t)
StatsReturns == \E t \in DOMAIN statsCalls : StatsResolved(t)
StatsFails == \E t \in DOMAIN statsCalls : StatsRejected(t)

Next ==
    \/ handleAddEmployee
    \/ UserEdits
    \/ handleCloseForm
    \/ UserChangesField
    \/ handleSubmit
    \/ SubmitReturns
    \/ SubmitFails
    \/ UserSetsFilter
    \/ UserDeletes
    \/ UserToggles
    \/ FetchReturns
    \/ FetchFails
    \/ DeleteReturns
    \/ DeleteFails
    \/ ToggleReturns
    \/ ToggleFails
    \/ UserTypesSearch
    \/ handleSearch
    \/ handleClear
    \/ SearchReturns
    \/ SearchFails
    \/ StatsReturns
    \/ StatsFails

\* The whole page.  Its parts are checked in the specifications below.
Spec == Init /\ [][Next]_vars

(***************************************************************************)
(* Specifications of the parts.  Each composes one controller with the     *)
(* handlers of the page that drive it; the variables of the others keep    *)
(* the values Init gives them.                                             *)
(***************************************************************************)
\* EmployeeList alone, from the mount of the page.
NextList ==
    \/ UserSetsFilter
    \/ UserDeletes
    \/ UserToggles
    \/ FetchReturns
    \/ FetchFails
    \/ DeleteReturns
    \/ DeleteFails
    \/ ToggleReturns
    \/ ToggleFails

SpecList == Init /\ [][NextList]_vars

\* SearchBar with the Dashboard state it sets and the list it unmounts.
NextSearch ==
    \/ UserTypesSearch
    \/ handleSearch
    \/ handleClear
    \/ SearchReturns
    \/ SearchFails
    \/ FetchReturns
    \/ FetchFails

SpecSearch == Init /\ [][NextSearch]_vars

\* The page: the form opened from the list, from the search results or from
\* Add Employee, over the search bar and the loading of the list.
NextPage ==
    \/ handleAddEmployee
    \/ UserEdits
    \/ handleCloseForm
    \/ handleSubmit
    \/ SubmitReturns
    \/ SubmitFails
    \/ UserTypesSearch
    \/ handleSearch
    \/ handleClear
    \/ SearchReturns
    \/ SearchFails
    \/ FetchReturns
    \/ FetchFails

SpecPage == Init /\ [][NextPage]_vars

\* EmployeeForm: the form is open, for a new record or for Emp1, on the loaded
\* page, and the user has typed a draft.
InitForm ==
    /\ db = {Emp1}
    /\ nextId = 2
    /\ formCalls = EmptyBag
    /\ listCalls = EmptyBag
    /\ searchCalls = EmptyBag
    /\ statsCalls = EmptyBag
    /\ showForm = TRUE
    /\ selectedEmployee \in {Null, Some(Emp1)}
    /\ refreshKey = 0
    /\ stats = [total |-> 1, active |-> 1, inactive |-> 0]
    /\ searchResults = Null
    /\ formData \in {d \in DraftSpace :
                        IF selectedEmployee = Null
                        THEN d.employee_id \in FormInputs("employee_id")
                        ELSE d.employee_id = Emp1.employee_id}
    /\ formLoading = FALSE
    /\ errors = NoErrors
    /\ listMounted = TRUE
    /\ employees = {Emp1}
    /\ listLoading = FALSE
    /\ filters = DefaultFilters
    /\ searchTerm = Str0
    /\ searchLoading = FALSE
    /\ last = Step("handleChange", <<>>, <<>>, <<>>)

NextForm ==
    \/ UserChangesField
    \/ handleSubmit
    \/ SubmitReturns
    \/ SubmitFails
    \/ handleCloseForm

SpecForm == InitForm /\ [][NextForm]_vars

\* The three controllers that call the service from a user action: the rows
\* of EmployeeList, EmployeeForm opened from a row of the list or of the search
\* results, and the search of SearchBar, with the completions of their calls.
NextCalls ==
    \/ UserEdits
    \/ handleCloseForm
    \/ handleSubmit
    \/ SubmitReturns
    \/ SubmitFails
    \/ UserDeletes
    \/ UserToggles
    \/ FetchReturns
    \/ FetchFails
    \/ DeleteReturns
    \/ DeleteFails
    \/ ToggleReturns
    \/ ToggleFails
    \/ UserTypesSearch
    \/ handleSearch
    \/ SearchReturns
    \/ SearchFails

SpecCalls == Init /\ [][NextCalls]_vars

\* EmployeeList with what reaches it from outside: the refresh signal of a
\* form success, and its unmount and mount by a search and Clear.  The page has
\* loaded; the user has opened Emp1 from its row, submitted the form, closed it
\* before the call returned, typed a name in the search bar and searched.
InitFilters ==
    /\ db = {Emp1}
    /\ nextId = 2
    /\ formCalls = One(FormTask("update", Emp1.id, dataToSubmit(SeedFormData(Emp1)), FALSE))
    /\ listCalls = EmptyBag
    /\ searchCalls = One(SearchTask(<<"d", "o", "e">>))
    /\ statsCalls = EmptyBag
    /\ showForm = FALSE
    /\ selectedEmployee = Null
    /\ refreshKey = 0
    /\ stats = [total |-> 1, active |-> 1, inactive |-> 0]
    /\ searchResults = Null
    /\ formData = DefaultFormData
    /\ formLoading = FALSE
    /\ errors = NoErrors
    /\ listMounted = TRUE
    /\ employees = {Emp1}
    /\ listLoading = FALSE
    /\ filters = DefaultFilters
    /\ searchTerm = <<"d", "o", "e">>
    /\ searchLoading = TRUE
    /\ last = Step("handleSearch", <<>>, <<searchEmployees(<<"d", "o", "e">>)>>, <<>>)

NextFilters ==
    \/ UserSetsFilter
    \/ UserToggles
    \/ FetchReturns
    \/ FetchFails
    \/ ToggleReturns
    \/ ToggleFails
    \/ SubmitReturns
    \/ SubmitFails
    \/ SearchReturns
    \/ SearchFails
    \/ handleClear

SpecFilters == InitFilters /\ [][NextFilters]_vars

\* The counts of the Dashboard beside the rows of EmployeeList and the form
\* opened from a row, from the mount of the page.
NextStats ==
    \/ UserDeletes
    \/ UserToggles
    \/ FetchReturns
    \/ FetchFails
    \/ DeleteReturns
    \/ DeleteFails
    \/ ToggleReturns
    \/ ToggleFails
    \/ StatsReturns
    \/ StatsFails
    \/ UserEdits
    \/ handleSubmit
    \/ SubmitReturns
    \/ SubmitFails

SpecStats == Init /\ [][NextStats]_vars

(***************************************************************************)
(* Properties.                                                             *)
(***************************************************************************)
AllSpaces(s) == \A i \in 1..Len(s) : s[i] = " "

RequiredFields == {"employee_id", "first_name", "last_name", "email"}

RequiredText(f) ==
    CASE f = "employee_id" -> "Employee ID is required"
      [] f = "first_name" -> "First name is required"
      [] f = "last_name" -> "Last name is required"
      [] f = "email" -> "Email is required"

\* The state right after handleSubmit ran on the draft formData.
Submitted == last.op = "handleSubmit"

\* C1: when handleSubmit runs on a draft whose employee_id, first_name,
\* last_name or email is empty or white space only, the stored errors hold the
\* required-field message of each such field, no createEmployee or
\* updateEmployee call is made or awaited, and loading is not set; on the
\* create path and on the edit path alike.
C1_InvalidDraftNeverReachesGateway ==
    (Submitted /\ \E f \in RequiredFields : AllSpaces(formData[f])) =>
        /\ \A f \in RequiredFields :
              AllSpaces(formData[f]) => f \in DOMAIN errors /\ errors[f] = RequiredText(f)
        /\ last.calls = <<>>
        /\ formCalls = EmptyBag
        /\ ~formLoading

C1_Witness ==
    /\ Submitted
    /\ selectedEmployee # Null
    /\ formData.first_name = Spc
    /\ formData.email = Str0
    /\ errors.first_name = "First name is required"
    /\ errors.email = "Email is required"
    /\ last.calls = <<>>

\* A negative number written as a sign and digits that are not all zero.
NegativeText(s) ==
    /\ Len(s) > 1 /\ Head(s) = "-"
    /\ \A i \in 2..Len(s) : IsDigit(s[i])
    /\ \E i \in 2..Len(s) : s[i] # "0"

\* The mapping the five rules give when each is applied on its own; emailRequired
\* says when the e-mail rule answers 'Email is required'.
RulesHold(emailRequired) ==
    /\ \A f \in {"employee_id", "first_name", "last_name"} :
          /\ f \in DOMAIN errors <=> AllSpaces(formData[f])
          /\ f \in DOMAIN errors => errors[f] = RequiredText(f)
    /\ "email" \in DOMAIN errors <=> (AllSpaces(formData.email) \/ ~EmailRegexTest(formData.email))
    /\ "email" \in DOMAIN errors =>
          errors.email = IF emailRequired THEN "Email is required" ELSE "Email is invalid"
    /\ "salary" \in DOMAIN errors <=> NegativeText(formData.salary)
    /\ "salary" \in DOMAIN errors => errors.salary = "Salary must be positive"
    /\ DOMAIN errors \subseteq {"employee_id", "first_name", "last_name", "email", "salary"}
    /\ (last.calls # <<>>) <=> (DOMAIN errors = {})

\* C2 as stated: the e-mail rule answers 'Email is required' only for the empty
\* e-mail, and 'Email is invalid' for every other e-mail that does not match.
C2_AsStated == Submitted => RulesHold(formData.email = Str0)

\* C2, amended: the five rules are applied independently and every violation is
\* reported: a key for employee_id, first_name, last_name iff the field is empty
\* or white space only; for email iff it is empty or white space only ('Email
\* is required') or else does not match \S+@\S+\.\S+ ('Email is invalid'); for
\* salary iff it is filled in and negative; the draft is accepted iff no key.
C2_RulesIndependent == Submitted => RulesHold(AllSpaces(formData.email))

C2_Witness ==
    /\ Submitted
    /\ formData.email = Spc
    /\ DOMAIN errors = {"first_name", "email", "salary"}
    /\ errors.email = "Email is required"
    /\ formData.salary = <<"-", "5">>

\* The payload of the call handleSubmit has just made.
Payload == last.calls[1][Len(last.calls[1])]

\* C3: for a draft that passes validation the payload given to createEmployee or
\* updateEmployee has phone, department, position and hire_date null exactly
\* when the draft field is the empty string and equal to the draft value
\* otherwise (never the empty string), salary null when empty and otherwise the
\* number the text denotes, and employee_id, first_name, last_name, email and
\* is_active as in the draft; the awaited call carries that payload.
C3_PayloadNormalized ==
    (Submitted /\ last.calls # <<>>) =>
        /\ Len(last.calls) = 1
        /\ last.calls[1][1] = IF selectedEmployee = Null THEN "createEmployee"
                              ELSE "updateEmployee"
        /\ selectedEmployee # Null => last.calls[1][2] = selectedEmployee[1].id
        /\ \A f \in {"phone", "department", "position", "hire_date"} :
              /\ Payload[f] = Null <=> formData[f] = Str0
              /\ Payload[f] # Null => Payload[f] = Some(formData[f])
              /\ Payload[f] # Some(Str0)
        /\ Payload.salary = Null <=> formData.salary = Str0
        /\ Payload.salary # Null => NumStr(Payload.salary[1]) = formData.salary
        /\ \A f \in {"employee_id", "first_name", "last_name", "email", "is_active"} :
              Payload[f] = formData[f]
        /\ \A t \in DOMAIN formCalls : t.live => t.data = Payload

C3_Witness ==
    /\ Submitted /\ last.calls # <<>>
    /\ selectedEmployee = Null
    /\ formData.phone = Str0 /\ Payload.phone = Null
    /\ formData.department = HR /\ Payload.department = Some(HR)
    /\ formData.salary = <<"0">> /\ Payload.salary = Some(0)
    /\ formData.hire_date = Str0 /\ Payload.hire_date = Null

\* C9: when the call made by handleSubmit fails, the step that handles the
\* failure produces exactly one notification, an error carrying the detail of
\* the response or else 'Failed to save employee', clears loading, leaves the
\* draft, the errors, the form's visibility, the record being edited and
\* refreshKey as they were and makes no call; and in the state it leaves, a
\* valid draft can be submitted again and that submit makes a call.
C9_FailureStep ==
    last'.op = "SubmitRejected" =>
        /\ last'.toasts =
              <<<<"error", IF last'.args[2] \in {Null, Some("")}
                           THEN "Failed to save employee" ELSE last'.args[2][1]>>>>
        /\ last'.calls = <<>>
        /\ formData' = formData
        /\ errors' = errors
        /\ showForm' = showForm /\ selectedEmployee' = selectedEmployee
        /\ refreshKey' = refreshKey
        /\ BagCardinality(formCalls') = BagCardinality(formCalls) - 1
        /\ last'.args[1] => ~formLoading'

C9_CanRetry ==
    (last.op = "SubmitRejected" /\ showForm /\ FormValid(formData)) =>
        /\ ~formLoading
        /\ ENABLED (handleSubmit /\ Len(last'.calls) = 1)

C9_FailureLeavesFormOpen == [][C9_FailureStep]_vars /\ []C9_CanRetry

C9_Witness ==
    /\ last.op = "SubmitRejected"
    /\ last.toasts = <<<<"error", "Employee ID already exists">>>>
    /\ showForm /\ ~formLoading
    /\ formData.first_name = <<"C">>
    /\ FormValid(formData)
    /\ formCalls = EmptyBag

\* How many calls of these kinds EmployeeList awaits.
Awaited(B, kinds) ==
    BagCardinality([t \in {x \in DOMAIN B : x.kind \in kinds} |-> B[t]])

\* C4: the parameters of the list request that a render issues hold the key
\* department iff a department is selected, with that value, and the key
\* is_active iff the status filter is set, with the boolean it selects; an unset
\* filter sends no key.
C4_FilterParams ==
    last.op \in {"mount", "setFilters"} =>
        LET request == last.calls[1]
            params == request[2]
        IN  /\ request[1] = "getAllEmployees"
            /\ params.department # Null <=> filters.department # Str0
            /\ params.department # Null => params.department = Some(filters.department)
            /\ params.is_active # Null <=> filters.is_active # ""
            /\ filters.is_active = "true" => params.is_active = Some(TRUE)
            /\ filters.is_active = "false" => params.is_active = Some(FALSE)
            /\ \E t \in DOMAIN listCalls : t.kind = "fetch" /\ t.params = params

C4_Witness ==
    /\ last.op = "setFilters"
    /\ filters = [department |-> Str0, is_active |-> "true"]
    /\ last.calls = <<<<"getAllEmployees", [department |-> Null, is_active |-> Some(TRUE)]>>>>

\* C5: a declined handleDelete makes no call and changes nothing; a confirmed one
\* makes the one call deleteEmployee(id); when that call succeeds the record is
\* gone from the backend and one getAllEmployees call is made; when it fails no
\* call is made; in none of these steps does the list's collection change.
C5_DeleteStep ==
    /\ (last'.op = "handleDelete" /\ ~last'.args[2]) =>
          /\ last'.calls = <<>>
          /\ listCalls' = listCalls /\ db' = db /\ employees' = employees
    /\ (last'.op = "handleDelete" /\ last'.args[2]) =>
          /\ last'.calls = <<<<"deleteEmployee", last'.args[1]>>>>
          /\ Awaited(listCalls', {"delete"}) = Awaited(listCalls, {"delete"}) + 1
          /\ Awaited(listCalls', {"fetch"}) = Awaited(listCalls, {"fetch"})
          /\ db' = db /\ employees' = employees
    /\ last'.op = "DeleteResolved" =>
          /\ Len(last'.calls) = 1 /\ last'.calls[1][1] = "getAllEmployees"
          /\ Awaited(listCalls', {"delete"}) = Awaited(listCalls, {"delete"}) - 1
          /\ Awaited(listCalls', {"fetch"}) = Awaited(listCalls, {"fetch"}) + 1
          /\ \A r \in db' : r.id # last'.args[1]
          /\ employees' = employees
    /\ last'.op = "DeleteRejected" =>
          /\ last'.calls = <<>>
          /\ Awaited(listCalls', {"delete"}) = Awaited(listCalls, {"delete"}) - 1
          /\ Awaited(listCalls', {"fetch"}) = Awaited(listCalls, {"fetch"})
          /\ db' = db /\ employees' = employees

C5_DeleteConfirmedThenRefetched == [][C5_DeleteStep]_vars

C5_Witness ==
    /\ last.op = "DeleteResolved"
    /\ db = {}
    /\ employees = {Emp1}
    /\ Awaited(listCalls, {"fetch"}) = 1 /\ Awaited(listCalls, {"delete"}) = 0

\* C6: handleToggleStatus makes the one call deactivateEmployee(id) when the
\* status it is given is true and the one call activateEmployee(id) when it is
\* false; when the call succeeds one getAllEmployees call is made and the
\* notification says deactivated, resp. activated, as the backend now holds
\* the record; when it fails there is one error notification and no call.
C6_ToggleStep ==
    /\ last'.op = "handleToggleStatus" =>
          LET kind == IF last'.args[2] THEN "deactivate" ELSE "activate"
          IN  /\ last'.calls = <<<<IF last'.args[2] THEN "deactivateEmployee"
                                   ELSE "activateEmployee", last'.args[1]>>>>
              /\ Awaited(listCalls', {kind}) = Awaited(listCalls, {kind}) + 1
              /\ BagCardinality(listCalls') = BagCardinality(listCalls) + 1
              /\ employees' = employees
    /\ last'.op = "ToggleResolved" =>
          /\ Len(last'.calls) = 1 /\ last'.calls[1][1] = "getAllEmployees"
          /\ Awaited(listCalls', {"fetch"}) = Awaited(listCalls, {"fetch"}) + 1
          /\ Len(last'.toasts) = 1 /\ last'.toasts[1][1] = "success"
          /\ last'.toasts[1][3] = IF last'.args[2] = "deactivate" THEN "deactivated"
                                  ELSE "activated"
          /\ \E r \in db' : r.id = last'.args[1]
                            /\ r.is_active = (last'.toasts[1][3] = "activated")
    /\ last'.op = "ToggleRejected" =>
          /\ last'.calls = <<>>
          /\ last'.toasts = <<<<"error", "Failed to update status">>>>
          /\ Awaited(listCalls', {"fetch"}) = Awaited(listCalls, {"fetch"})
          /\ db' = db /\ employees' = employees

C6_ToggleCallsMatchingOperation == [][C6_ToggleStep]_vars

C6_Witness ==
    /\ last.op = "ToggleResolved"
    /\ last.toasts = <<<<"success", <<"A", " ", "B">>, "activated">>>>
    /\ \E r \in db : r.id = 1 /\ r.is_active
    /\ \E r \in employees : r.id = 1 /\ ~r.is_active
    /\ Awaited(listCalls, {"fetch"}) = 1

\* C10: the collection of EmployeeList is empty at the mount and changes only in
\* the step that completes a successful fetch; setFilters, handleDelete and
\* handleToggleStatus, before and after their awaits, leave it alone, and a
\* failed fetch leaves it alone and clears loading.
C10_CollectionStep ==
    /\ employees' # employees => last'.op = "FetchResolved"
    /\ last'.op \in {"setFilters", "handleDelete", "handleToggleStatus", "DeleteResolved",
                     "DeleteRejected", "ToggleResolved", "ToggleRejected"} =>
          employees' = employees
    /\ last'.op = "FetchRejected" => employees' = employees /\ ~listLoading'

C10_CollectionChangesOnlyOnFetch == employees = {} /\ [][C10_CollectionStep]_vars

C10_Witness ==
    /\ last.op = "FetchRejected"
    /\ employees = {Emp1}
    /\ db = {}
    /\ ~listLoading
    /\ listCalls = EmptyBag

\* C7: handleSearch on a query that is empty after trimming makes no call, tells
\* the parent nothing and notifies 'Please enter a search term'; otherwise it
\* makes the one call searchEmployees(query).  When the call returns, the
\* parent's searchResults is what was returned, with an info notification for
\* no result and a success notification with the count otherwise; when it
\* fails searchResults is as before; in both cases loading is cleared.
C7_SearchStep ==
    /\ last'.op = "handleSearch" =>
          /\ searchResults' = searchResults
          /\ IF AllSpaces(searchTerm)
             THEN /\ last'.calls = <<>>
                  /\ last'.toasts = <<<<"info", "Please enter a search term">>>>
                  /\ searchCalls' = searchCalls
                  /\ searchLoading' = searchLoading
             ELSE /\ last'.calls = <<<<"searchEmployees", searchTerm>>>>
                  /\ last'.toasts = <<>>
                  /\ BagCardinality(searchCalls') = BagCardinality(searchCalls) + 1
    /\ last'.op = "SearchResolved" =>
          /\ searchResults' = Some(last'.args[1])
          /\ last'.toasts =
                IF last'.args[1] = {}
                THEN <<<<"info", "No employees found matching your search">>>>
                ELSE <<<<"success", "Found", Cardinality(last'.args[1])>>>>
          /\ last'.calls = <<>>
          /\ ~searchLoading'
    /\ last'.op = "SearchRejected" =>
          /\ searchResults' = searchResults
          /\ last'.toasts = <<<<"error", "Failed to search employees">>>>
          /\ ~searchLoading'

C7_SearchForwardsResults == [][C7_SearchStep]_vars

C7_Witness ==
    /\ last.op = "SearchResolved"
    /\ searchResults = Some({Emp1})
    /\ last.toasts = <<<<"success", "Found", 1>>>>
    /\ ~searchLoading
    /\ ~listMounted

\* C8 as stated: whenever handleSubmit completes with a successful call, loading
\* is clear, a success notification is produced, refreshKey has grown, the form
\* is dismissed and EmployeeList has a new fetch under way.
C8_AsStated ==
    last.op = "SubmitResolved" =>
        /\ ~formLoading /\ ~showForm
        /\ Len(last.toasts) = 1 /\ last.toasts[1][1] = "success"
        /\ refreshKey > 0
        /\ \E t \in DOMAIN listCalls : t.kind = "fetch" /\ t.live

\* What holds of C8: the same, while the Dashboard shows EmployeeList and not
\* search results.
C8_WhileListShown == (searchResults = Null) => C8_AsStated

\* The fetch whose response the last step delivered: its parameters, whether
\* its component is still mounted, and whether loading was still set when it
\* arrived.  Every fetch sets loading as it starts, so loading found cleared
\* means that another fetch has completed while this one was awaited.
Arrived == [params |-> last.args[1], live |-> last.args[2], loading |-> last.args[3]]

\* C11: whatever EmployeeList awaits besides, a response to fetchEmployees that
\* arrives at the mounted list becomes the displayed collection and clears
\* loading: of two overlapping fetches the one that arrives last is shown, be
\* it the answer to the filters selected now or to older ones.
C11_LastArrivedWins ==
    last.op = "FetchResolved" /\ Arrived.live =>
        /\ employees = ListResponse(Arrived.params).employees
        /\ ~listLoading

\* C11: two fetches have overlapped and both have completed, no call is
\* awaited any more, and the collection on display answers the filters of the
\* render that started a status change, not the filters selected now, under
\* which the backend has other records.
C11_Witness ==
    /\ last.op = "FetchResolved" /\ Arrived.live /\ ~Arrived.loading
    /\ listCalls = EmptyBag
    /\ Arrived.params # FetchParams(filters)
    /\ employees = ListResponse(Arrived.params).employees
    /\ employees # ListResponse(FetchParams(filters)).employees

\* How many of the awaited calls belong to the component instance now mounted.
LiveCalls(B) == BagCardinality([t \in {x \in DOMAIN B : x.live} |-> B[t]])

\* C12 as stated: EmployeeForm, EmployeeList and SearchBar each await at most
\* one call of the service at any moment.
C12_AsStated ==
    /\ LiveCalls(formCalls) <= 1
    /\ LiveCalls(listCalls) <= 1
    /\ BagCardinality(searchCalls) <= 1

\* C12: a handler of a controller starts at most one call; EmployeeForm and
\* SearchBar, whose submit buttons are disabled while loading, await at most
\* one call each and are loading exactly while they await it.  EmployeeList
\* has no such guard on its row buttons.
C12_OneCallPerFormAndSearch ==
    /\ LiveCalls(formCalls) <= 1
    /\ BagCardinality(searchCalls) <= 1
    /\ formLoading <=> LiveCalls(formCalls) = 1
    /\ searchLoading <=> BagCardinality(searchCalls) = 1
    /\ last.op \notin {"mount", "SubmitResolved"} => Len(last.calls) <= 1

\* C12: the form and the search bar each await their one call while the list,
\* still showing its rows, awaits a deactivate and a delete at once.
C12_Witness ==
    /\ formLoading /\ LiveCalls(formCalls) = 1
    /\ searchLoading /\ BagCardinality(searchCalls) = 1
    /\ ~listLoading
    /\ LiveCalls(listCalls) = 2
    /\ Awaited(listCalls, {"delete"}) = 1
    /\ Awaited(listCalls, {"deactivate"}) = 1

\* The mounted list has no records under a filter selection that is not the
\* initial one: a fetch has come back empty since the selection was made.
EmptyUnderFilter == listMounted /\ employees = {} /\ filters # DefaultFilters

\* C13 as stated: once a fetch has come back empty under a non-empty filter,
\* the list instance never renders its filters and rows again.
C13_StuckStep == EmptyUnderFilter /\ listMounted' => ~ListRendered'

C13_AsStated == [][C13_StuckStep]_vars

\* C13: setFilters and the row actions run only from a list that is mounted,
\* not loading and not empty.  The filters change only in setFilters, or go
\* back to the initial ones when the list is unmounted or mounted.  A form
\* success leaves the filters alone and, when the list is mounted, re-fetches
\* with them.  A list that is empty under a filter gets its filters and rows
\* back only in a step where a fetch returns records.
C13_FilterStep ==
    /\ last'.op \in {"setFilters", "handleToggleStatus", "handleDelete"} => ListRendered
    /\ filters' # filters =>
          \/ last'.op = "setFilters"
          \/ listMounted' # listMounted /\ filters' = DefaultFilters
    /\ last'.op = "SubmitResolved" =>
          /\ filters' = filters
          /\ listMounted =>
                /\ last'.calls[2] = getAllEmployees(FetchParams(filters))
                /\ Count(listCalls', ListTask("fetch", 0, Str0, FetchParams(filters), TRUE)) > 0
                /\ listLoading'
    /\ EmptyUnderFilter /\ listMounted' /\ ListRendered' =>
          last'.op = "FetchResolved" /\ employees' # {}

C13_FiltersOnlyFromRenderedList == [][C13_FilterStep]_vars

\* C13: the list is empty under the filter Inactive, a form success has just
\* re-fetched with that filter, and the filter is still the selected one.
C13_Witness ==
    /\ last.op = "SubmitResolved"
    /\ EmptyUnderFilter
    /\ filters = [department |-> Str0, is_active |-> "false"]
    /\ last.calls[2] = getAllEmployees([department |-> Null, is_active |-> Some(FALSE)])
    /\ listLoading

\* The counts the backend would answer to fetchStats now.
BackendCounts ==
    [total |-> ListResponse(StatsParams(1)).total,
     active |-> ListResponse(StatsParams(2)).total,
     inactive |-> ListResponse(StatsParams(3)).total]

\* How many runs of fetchStats are at their first await.
StatsStarted == Count(statsCalls, StatsTask(1, 0, 0))

ListOps ==
    {"handleDelete", "DeleteResolved", "DeleteRejected", "handleToggleStatus",
     "ToggleResolved", "ToggleRejected", "FetchResolved", "FetchRejected"}

\* C14: fetchStats is started by the mount and by a form success, one run each,
\* and by nothing else; refreshKey moves only at a form success, by one.  The
\* steps of handleDelete, handleToggleStatus and fetchEmployees leave
\* refreshKey, stats and the awaited fetchStats calls alone.  stats changes
\* only where a fetchStats run completes, so with no run awaited the counts
\* on display stay as they are until the next form success.
C14_StatsStep ==
    /\ last'.op \in ListOps =>
          refreshKey' = refreshKey /\ stats' = stats /\ statsCalls' = statsCalls
    /\ refreshKey' # refreshKey => last'.op = "SubmitResolved"
    /\ last'.op = "SubmitResolved" =>
          refreshKey' = refreshKey + 1 /\ StatsStarted' = StatsStarted + 1
    /\ StatsStarted' > StatsStarted => last'.op = "SubmitResolved"
    /\ stats' # stats => last'.op = "StatsResolved" /\ last'.calls = <<>>
    /\ statsCalls = EmptyBag /\ last'.op # "SubmitResolved" =>
          stats' = stats /\ statsCalls' = EmptyBag

C14_StatsOnlyOnMountAndFormSuccess ==
    /\ statsCalls = One(StatsTask(1, 0, 0)) /\ refreshKey = 0
    /\ [][C14_StatsStep]_vars

\* C14: the counts were fetched at the mount, Emp1 has been deleted from its
\* row and the list re-fetched: nothing is awaited, the list is empty as the
\* backend is, and the Dashboard still counts one active employee.
C14_Witness ==
    /\ last.op = "FetchResolved"
    /\ statsCalls = EmptyBag /\ listCalls = EmptyBag /\ formCalls = EmptyBag
    /\ refreshKey = 0
    /\ db = {}
    /\ employees = ListResponse(FetchParams(filters)).employees
    /\ stats = [total |-> 1, active |-> 1, inactive |-> 0]
    /\ stats # BackendCounts
    /\ stats.total # Cardinality(employees)

====
